---- MODULE Spec2Model ----
(***************************************************************************)
(* scripts/apply_frontmatter.py: the front-matter applicator.              *)
(*                                                                         *)
(* Text is a sequence of characters and a file holds a sequence of bytes.   *)
(* An ASCII character, and the byte that encodes it, is the one-character  *)
(* string of that character.  Any other byte is the string of "x" and its  *)
(* two hexadecimal digits ("xC2"), and any other character is the strings  *)
(* of its UTF-8 bytes run together ("xC2xA0" is U+00A0).  A path is the    *)
(* sequence of its components below DOCS_ROOT (<<>> is DOCS_ROOT itself).  *)
(* The file system is a function from the existing file paths to their     *)
(* stored bytes plus the set of existing directories.  Newline handling is *)
(* that of a POSIX build of Python (os.linesep = "\n").                    *)
(***************************************************************************)
EXTENDS Integers, Sequences, FiniteSets, TLC

VARIABLES
    fs,      \* existing file path -> stored bytes
    dirs,    \* existing directories
    out,     \* the status lines printed so far: by the current run, or by
             \* each of two overlapping runs
    writes,  \* the paths handed to write_text so far, kept like out
    raised,  \* the exception main() ended with, "none" while there is none,
             \* kept like out
    pc,      \* sequential runs: index of the next table entry of main()
    run,     \* sequential runs: "first" or "second" run of main()
    start,   \* the files and directories at the start of the current run
    proc,    \* overlapping runs: each run's position and what it has read
    interrupted  \* overlapping runs: some read_text or write_text call of
             \* one run, between its first and its last system call, had a
             \* step of the other run in between

vars == <<fs, dirs, out, writes, raised, pc, run, start, proc, interrupted>>

\* ------------------------------------------------------------------ bounds
\* Longest run of leading whitespace of a generated file text.
MaxLead == 1

\* ------------------------------------------------------------ text helpers
NL == "\n"
CR == "\r"

\* "---"
Delim == <<"-", "-", "-">>

\* s.startswith(p)
StartsWith(s, p) ==
    /\ Len(p) <= Len(s)
    /\ SubSeq(s, 1, Len(p)) = p

\* s.endswith(p)
EndsWith(s, p) ==
    /\ Len(p) <= Len(s)
    /\ SubSeq(s, Len(s) - Len(p) + 1, Len(s)) = p

\* s with its first n characters dropped
Drop(s, n) == SubSeq(s, n + 1, Len(s))

\* The ASCII whitespace characters without an escape: U+000B and
\* U+001C..U+001F.
VT == ""
FS == ""
GS == ""
RS == ""
US == ""

\* U+0085 (next line) and U+00A0 (no-break space)
NEL == "xC2x85"
NBSP == "xC2xA0"

\* The whitespace characters above U+00FF: U+1680, U+2000..U+200A, U+2028,
\* U+2029, U+202F, U+205F and U+3000.
WideSpaces ==
    {"xE1x9Ax80", "xE2x80x80", "xE2x80x81", "xE2x80x82", "xE2x80x83",
     "xE2x80x84", "xE2x80x85", "xE2x80x86", "xE2x80x87", "xE2x80x88",
     "xE2x80x89", "xE2x80x8A", "xE2x80xA8", "xE2x80xA9", "xE2x80xAF",
     "xE2x81x9F", "xE3x80x80"}

\* The characters str.lstrip() removes: those str.isspace() holds of.
Whitespace ==
    {" ", "\t", "\n", "\r", "\f", VT, FS, GS, RS, US, NEL, NBSP} \cup WideSpaces

\* The least element of a non-empty set of integers.
Least(S) == CHOOSE i \in S : \A j \in S : i <= j

\* Number of leading characters of s that lie in the set cs.
LeadCount(s, cs) ==
    LET others == {i \in 1..Len(s) : s[i] \notin cs}
    IN  IF others = {} THEN Len(s) ELSE Least(others) - 1

\* str.lstrip()
LStrip(s) == Drop(s, LeadCount(s, Whitespace))

\* str.lstrip("\n")
LStripNewlines(s) == Drop(s, LeadCount(s, {NL}))

\* text.split("\n"): the lines of a text, without their terminators.
SplitLines(s) ==
    LET breaks == {i \in 1..Len(s) : s[i] = NL}
        \* position of the k-th "\n"; 0 before the first line, Len(s) + 1 after the last
        Break(k) == IF k = 0 THEN 0
                    ELSE IF k > Cardinality(breaks) THEN Len(s) + 1
                    ELSE CHOOSE i \in breaks : Cardinality({j \in breaks : j < i}) = k - 1
    IN  [k \in 1..(Cardinality(breaks) + 1) |-> SubSeq(s, Break(k - 1) + 1, Break(k) - 1)]

\* sep.join(items)
RECURSIVE Join(_, _)
Join(items, sep) ==
    IF items = <<>> THEN <<>>
    ELSE IF Len(items) = 1 THEN items[1]
    ELSE items[1] \o sep \o Join(Tail(items), sep)

\* Longest common prefix of two texts.
CommonPrefix(a, b) ==
    LET n == IF Len(a) < Len(b) THEN Len(a) ELSE Len(b)
        differ == {i \in 1..n : a[i] # b[i]}
    IN  SubSeq(a, 1, IF differ = {} THEN n ELSE Least(differ) - 1)

\* ------------------------------------------------------------------ UTF-8
HexDigit(d) ==
    <<"0", "1", "2", "3", "4", "5", "6", "7", "8", "9", "A", "B", "C", "D", "E", "F">>[d + 1]

\* The byte of value n, 128 <= n <= 255.
Byte(n) == "x" \o HexDigit(n \div 16) \o HexDigit(n % 16)

\* Continuation bytes 80..BF, and the lead bytes of two-, three- and four-byte
\* characters: C2..DF, E0..EF and F0..F4.
Cont == {Byte(n) : n \in 128..191}
Lead2 == {Byte(n) : n \in 194..223}
Lead3 == {Byte(n) : n \in 224..239}
Lead4 == {Byte(n) : n \in 240..244}

\* The bytes that may follow a lead byte: after E0 and F0 not an overlong
\* form, after ED no surrogate, after F4 nothing above U+10FFFF.
Second(lead) ==
    IF lead = "xE0" THEN {Byte(n) : n \in 160..191}
    ELSE IF lead = "xED" THEN {Byte(n) : n \in 128..159}
    ELSE IF lead = "xF0" THEN {Byte(n) : n \in 144..191}
    ELSE IF lead = "xF4" THEN {Byte(n) : n \in 128..143}
    ELSE Cont

\* Number of bytes of the character a byte starts; 0 for a byte that starts
\* none.
CharLen(b) ==
    IF Len(b) = 1 THEN 1
    ELSE IF b \in Lead2 THEN 2
    ELSE IF b \in Lead3 THEN 3
    ELSE IF b \in Lead4 THEN 4
    ELSE 0

\* No byte of bs is above 7F.
IsAscii(bs) == \A i \in 1..Len(bs) : Len(bs[i]) = 1

\* A whole character starts at position i of bs.
WellFormedAt(bs, i) ==
    LET n == CharLen(bs[i])
    IN  /\ n > 0
        /\ i + n - 1 <= Len(bs)
        /\ \A j \in (i + 1)..(i + n - 1) : bs[j] \in Cont
        /\ n > 1 => bs[i + 1] \in Second(bs[i])
        /\ i + n <= Len(bs) => bs[i + n] \notin Cont

\* bytes.decode("utf-8") succeeds: the bytes are whole characters end to end.
\* Otherwise it raises UnicodeDecodeError.
Decodable(bs) ==
    \/ IsAscii(bs)
    \/ /\ bs[1] \notin Cont
       /\ \A i \in 1..Len(bs) : bs[i] \notin Cont => WellFormedAt(bs, i)

\* bytes.decode("utf-8") of decodable bytes
utf8_decode(bs) ==
    IF IsAscii(bs) THEN bs
    ELSE LET IsStart(i) == bs[i] \notin Cont
             starts == SelectSeq([i \in 1..Len(bs) |-> i], IsStart)
             CharAt(i) ==
                 LET n == CharLen(bs[i])
                 IN  IF n = 1 THEN bs[i]
                     ELSE IF n = 2 THEN bs[i] \o bs[i + 1]
                     ELSE IF n = 3 THEN bs[i] \o bs[i + 1] \o bs[i + 2]
                     ELSE bs[i] \o bs[i + 1] \o bs[i + 2] \o bs[i + 3]
         IN  [k \in 1..Len(starts) |-> CharAt(starts[k])]

\* The UTF-8 bytes of one character: the bytes whose names run together
\* are the character.
CharBytes(c) ==
    IF Len(c) = 1 THEN <<c>>
    ELSE IF Len(c) = 6
    THEN LET b1 == CHOOSE x \in Lead2 : \E y \in Cont : x \o y = c
             b2 == CHOOSE y \in Cont : b1 \o y = c
         IN  <<b1, b2>>
    ELSE IF Len(c) = 9
    THEN LET b1 == CHOOSE x \in Lead3 : \E y \in Cont : \E z \in Cont : x \o y \o z = c
             b2 == CHOOSE y \in Cont : \E z \in Cont : b1 \o y \o z = c
             b3 == CHOOSE z \in Cont : b1 \o b2 \o z = c
         IN  <<b1, b2, b3>>
    ELSE LET b1 == CHOOSE x \in Lead4 :
                       \E y \in Cont : \E z \in Cont : \E w \in Cont : x \o y \o z \o w = c
             b2 == CHOOSE y \in Cont : \E z \in Cont : \E w \in Cont : b1 \o y \o z \o w = c
             b3 == CHOOSE z \in Cont : \E w \in Cont : b1 \o b2 \o z \o w = c
             b4 == CHOOSE w \in Cont : b1 \o b2 \o b3 \o w = c
         IN  <<b1, b2, b3, b4>>

\* str.encode("utf-8")
RECURSIVE utf8_encode(_)
utf8_encode(text) ==
    IF IsAscii(text) THEN text
    ELSE CharBytes(Head(text)) \o utf8_encode(Tail(text))

\* Text mode with universal newlines: "\r\n" and a lone "\r" both arrive as
\* "\n".
NotAfterCR(pair) == ~(pair[1] = NL /\ pair[2] = CR)

universal_newlines(text) ==
    LET \* each character with the one before it
        pairs == [i \in 1..Len(text) |->
                     <<text[i], IF i > 1 THEN text[i - 1] ELSE "">>]
        \* the "\n" of a "\r\n" is dropped, and every "\r" becomes "\n"
        kept == SelectSeq(pairs, NotAfterCR)
    IN  [i \in 1..Len(kept) |-> IF kept[i][1] = CR THEN NL ELSE kept[i][1]]

\* Path.read_text(encoding="utf-8") of decodable bytes
read_text(stored) == universal_newlines(utf8_decode(stored))

\* Path.write_text(text, encoding="utf-8"): "\n" is written as os.linesep,
\* which is "\n" itself here, and the text is stored as its UTF-8 bytes.
write_text(text) == utf8_encode(text)

\* --------------------------------------------------------- metadata values
StrV(s) == [t |-> "str", s |-> s]
IntV(n) == [t |-> "int", n |-> n]
BoolV(b) == [t |-> "bool", b |-> b]

Digit(d) == <<"0", "1", "2", "3", "4", "5", "6", "7", "8", "9">>[d + 1]

RECURSIVE NatStr(_)
NatStr(n) == IF n < 10 THEN <<Digit(n)>> ELSE NatStr(n \div 10) \o <<Digit(n % 10)>>

\* str(value), which is also what an f-string field formats a value to.
PyStr(v) ==
    CASE v.t = "str" -> v.s
      [] v.t = "int" -> IF v.n < 0 THEN <<"-">> \o NatStr(-v.n) ELSE NatStr(v.n)
      [] v.t = "bool" -> IF v.b THEN <<"T", "r", "u", "e">>
                                ELSE <<"F", "a", "l", "s", "e">>

true_str == <<"t", "r", "u", "e">>
false_str == <<"f", "a", "l", "s", "e">>

\* ------------------------------------------------------ the tables of main
\* The keys (K_) and string values (T_) of the two tables, the five body
\* literals, and the tables themselves: each an ordered list of entries, as a
\* dict keeps its insertion order.  A frontmatter is the list of its
\* <<key, value>> pairs.
K_title ==
    <<"t","i","t","l","e">>

T_Getting_Started ==
    <<"G","e","t","t","i","n","g"," ","S","t","a","r","t","e","d">>

K_nav_order ==
    <<"n","a","v","_","o","r","d","e","r">>

K_has_children ==
    <<"h","a","s","_","c","h","i","l","d","r","e","n">>

T_Plugins ==
    <<"P","l","u","g","i","n","s">>

T_Core_APIs ==
    <<"C","o","r","e"," ","A","P","I","s">>

T_System_Architecture ==
    <<"S","y","s","t","e","m"," ","A","r","c","h","i","t","e","c","t","u","r","e">>

T_Contributing ==
    <<"C","o","n","t","r","i","b","u","t","i","n","g">>

T_Datadog_Sales_Engineering_Toolkit ==
    <<"D","a","t","a","d","o","g"," ","S","a","l","e","s"," ","E","n","g","i","n","e","e","r","i","n",
    "g"," ","T","o","o","l","k","i","t">>

T_Quick_Start ==
    <<"Q","u","i","c","k"," ","S","t","a","r","t">>

K_parent ==
    <<"p","a","r","e","n","t">>

T_Hello_World_Plugin ==
    <<"H","e","l","l","o"," ","W","o","r","l","d"," ","P","l","u","g","i","n">>

T_Plugin_Development_v2 ==
    <<"P","l","u","g","i","n"," ","D","e","v","e","l","o","p","m","e","n","t"," ","(","v","2",")">>

T_Plugin_Architecture ==
    <<"P","l","u","g","i","n"," ","A","r","c","h","i","t","e","c","t","u","r","e">>

T_Plugin_Generator ==
    <<"P","l","u","g","i","n"," ","G","e","n","e","r","a","t","o","r">>

T_Messaging ==
    <<"M","e","s","s","a","g","i","n","g">>

T_Notifications ==
    <<"N","o","t","i","f","i","c","a","t","i","o","n","s">>

T_Storage ==
    <<"S","t","o","r","a","g","e">>

T_Shared_APIs ==
    <<"S","h","a","r","e","d"," ","A","P","I","s">>

T_System_Overview ==
    <<"S","y","s","t","e","m"," ","O","v","e","r","v","i","e","w">>

T_Plugin_Loader ==
    <<"P","l","u","g","i","n"," ","L","o","a","d","e","r">>

T_Contributing_Overview ==
    <<"C","o","n","t","r","i","b","u","t","i","n","g"," ","O","v","e","r","v","i","e","w">>

T_Contribution_Workflow ==
    <<"C","o","n","t","r","i","b","u","t","i","o","n"," ","W","o","r","k","f","l","o","w">>

T_Contributor_Guide ==
    <<"C","o","n","t","r","i","b","u","t","o","r"," ","G","u","i","d","e">>

T_Plugin_Standards ==
    <<"P","l","u","g","i","n"," ","S","t","a","n","d","a","r","d","s">>

\* The body literal of lines 57-61, character by character.
Body_guides ==
    <<"\n"," "," "," "," "," "," "," "," "," "," "," "," "," "," "," "," ","#"," ","G","e","t","t",
    "i","n","g"," ","S","t","a","r","t","e","d","\n","\n"," "," "," "," "," "," "," "," "," "," ",
    " "," "," "," "," "," ","P","i","c","k"," ","a"," ","g","u","i","d","e"," ","b","e","l","o","w",
    " ","t","o"," ","g","e","t"," ","u","p"," ","a","n","d"," ","r","u","n","n","i","n","g"," ","w",
    "i","t","h"," ","t","h","e"," ","D","a","t","a","d","o","g"," ","S","a","l","e","s"," ","E","n",
    "g","i","n","e","e","r","i","n","g"," ","T","o","o","l","k","i","t",".","\n"," "," "," "," ",
    " "," "," "," "," "," "," "," ">>

\* The body literal of lines 69-73, character by character.
Body_plugins ==
    <<"\n"," "," "," "," "," "," "," "," "," "," "," "," "," "," "," "," ","#"," ","P","l","u","g",
    "i","n","s","\n","\n"," "," "," "," "," "," "," "," "," "," "," "," "," "," "," "," ","E","v",
    "e","r","y","t","h","i","n","g"," ","y","o","u"," ","n","e","e","d"," ","t","o"," ","k","n","o",
    "w"," ","a","b","o","u","t"," ","t","h","e"," ","p","l","u","g","i","n"," ","s","y","s","t","e",
    "m"," ","a","n","d"," ","h","o","w"," ","t","o"," ","e","x","t","e","n","d"," ","t","h","e"," ",
    "t","o","o","l","k","i","t",".","\n"," "," "," "," "," "," "," "," "," "," "," "," ">>

\* The body literal of lines 81-85, character by character.
Body_core_apis ==
    <<"\n"," "," "," "," "," "," "," "," "," "," "," "," "," "," "," "," ","#"," ","C","o","r","e",
    " ","A","P","I","s","\n","\n"," "," "," "," "," "," "," "," "," "," "," "," "," "," "," "," ",
    "C","o","r","e"," ","s","e","r","v","i","c","e","s"," ","a","v","a","i","l","a","b","l","e"," ",
    "t","o"," ","a","l","l"," ","p","l","u","g","i","n","s",".","\n"," "," "," "," "," "," "," ",
    " "," "," "," "," ">>

\* The body literal of lines 93-97, character by character.
Body_architecture ==
    <<"\n"," "," "," "," "," "," "," "," "," "," "," "," "," "," "," "," ","#"," ","S","y","s","t",
    "e","m"," ","A","r","c","h","i","t","e","c","t","u","r","e","\n","\n"," "," "," "," "," "," ",
    " "," "," "," "," "," "," "," "," "," ","D","e","e","p"," ","d","i","v","e","s"," ","i","n","t",
    "o"," ","t","h","e"," ","e","x","t","e","n","s","i","o","n","'","s"," ","i","n","t","e","r","n",
    "a","l","s",".","\n"," "," "," "," "," "," "," "," "," "," "," "," ">>

\* The body literal of lines 105-109, character by character.
Body_contributing ==
    <<"\n"," "," "," "," "," "," "," "," "," "," "," "," "," "," "," "," ","#"," ","C","o","n","t",
    "r","i","b","u","t","i","n","g","\n","\n"," "," "," "," "," "," "," "," "," "," "," "," "," ",
    " "," "," ","L","e","a","r","n"," ","h","o","w"," ","t","o"," ","c","o","n","t","r","i","b","u",
    "t","e"," ","t","o"," ","t","h","e"," ","D","a","t","a","d","o","g"," ","S","a","l","e","s"," ",
    "E","n","g","i","n","e","e","r","i","n","g"," ","T","o","o","l","k","i","t"," ","a","n","d"," ",
    "i","t","s"," ","p","l","u","g","i","n"," ","e","c","o","s","y","s","t","e","m",".","\n"," ",
    " "," "," "," "," "," "," "," "," "," "," ">>

parents == <<
    [path |-> <<"guides", "_index.md">>,
     frontmatter |-> <<<<K_title, StrV(T_Getting_Started)>>, <<K_nav_order, IntV(2)>>, <<K_has_children, BoolV(TRUE)>>>>,
     body |-> Body_guides],
    [path |-> <<"plugins", "_index.md">>,
     frontmatter |-> <<<<K_title, StrV(T_Plugins)>>, <<K_nav_order, IntV(3)>>, <<K_has_children, BoolV(TRUE)>>>>,
     body |-> Body_plugins],
    [path |-> <<"core-apis", "_index.md">>,
     frontmatter |-> <<<<K_title, StrV(T_Core_APIs)>>, <<K_nav_order, IntV(4)>>, <<K_has_children, BoolV(TRUE)>>>>,
     body |-> Body_core_apis],
    [path |-> <<"architecture", "_index.md">>,
     frontmatter |-> <<<<K_title, StrV(T_System_Architecture)>>, <<K_nav_order, IntV(5)>>, <<K_has_children, BoolV(TRUE)>>>>,
     body |-> Body_architecture],
    [path |-> <<"contributing", "_index.md">>,
     frontmatter |-> <<<<K_title, StrV(T_Contributing)>>, <<K_nav_order, IntV(6)>>, <<K_has_children, BoolV(TRUE)>>>>,
     body |-> Body_contributing] >>

files_frontmatter == <<
    [path |-> <<"index.md">>,
     frontmatter |-> <<<<K_title, StrV(T_Datadog_Sales_Engineering_Toolkit)>>, <<K_nav_order, IntV(1)>>>>],
    [path |-> <<"guides", "QUICK_START.md">>,
     frontmatter |-> <<<<K_title, StrV(T_Quick_Start)>>, <<K_parent, StrV(T_Getting_Started)>>, <<K_nav_order, IntV(1)>>>>],
    [path |-> <<"guides", "HELLO_WORLD.md">>,
     frontmatter |-> <<<<K_title, StrV(T_Hello_World_Plugin)>>, <<K_parent, StrV(T_Getting_Started)>>, <<K_nav_order, IntV(2)>>>>],
    [path |-> <<"guides", "PLUGIN_DEVELOPMENT_V2.md">>,
     frontmatter |-> <<<<K_title, StrV(T_Plugin_Development_v2)>>, <<K_parent, StrV(T_Getting_Started)>>, <<K_nav_order, IntV(3)>>>>],
    [path |-> <<"plugins", "architecture.md">>,
     frontmatter |-> <<<<K_title, StrV(T_Plugin_Architecture)>>, <<K_parent, StrV(T_Plugins)>>, <<K_nav_order, IntV(1)>>>>],
    [path |-> <<"plugins", "generator.md">>,
     frontmatter |-> <<<<K_title, StrV(T_Plugin_Generator)>>, <<K_parent, StrV(T_Plugins)>>, <<K_nav_order, IntV(2)>>>>],
    [path |-> <<"core-apis", "messages.md">>,
     frontmatter |-> <<<<K_title, StrV(T_Messaging)>>, <<K_parent, StrV(T_Core_APIs)>>, <<K_nav_order, IntV(1)>>>>],
    [path |-> <<"core-apis", "notifications.md">>,
     frontmatter |-> <<<<K_title, StrV(T_Notifications)>>, <<K_parent, StrV(T_Core_APIs)>>, <<K_nav_order, IntV(2)>>>>],
    [path |-> <<"core-apis", "storage.md">>,
     frontmatter |-> <<<<K_title, StrV(T_Storage)>>, <<K_parent, StrV(T_Core_APIs)>>, <<K_nav_order, IntV(3)>>>>],
    [path |-> <<"core-apis", "shared-messaging.md">>,
     frontmatter |-> <<<<K_title, StrV(T_Shared_APIs)>>, <<K_parent, StrV(T_Core_APIs)>>, <<K_nav_order, IntV(4)>>>>],
    [path |-> <<"architecture", "SYSTEM_OVERVIEW.md">>,
     frontmatter |-> <<<<K_title, StrV(T_System_Overview)>>, <<K_parent, StrV(T_System_Architecture)>>, <<K_nav_order, IntV(1)>>>>],
    [path |-> <<"architecture", "PLUGIN_LOADER_IMPLEMENTATION.md">>,
     frontmatter |-> <<<<K_title, StrV(T_Plugin_Loader)>>, <<K_parent, StrV(T_System_Architecture)>>, <<K_nav_order, IntV(2)>>>>],
    [path |-> <<"contributing.md">>,
     frontmatter |-> <<<<K_title, StrV(T_Contributing_Overview)>>, <<K_parent, StrV(T_Contributing)>>, <<K_nav_order, IntV(1)>>>>],
    [path |-> <<"contributing", "CONTRIBUTING_OVERVIEW.md">>,
     frontmatter |-> <<<<K_title, StrV(T_Contribution_Workflow)>>, <<K_parent, StrV(T_Contributing)>>, <<K_nav_order, IntV(2)>>>>],
    [path |-> <<"contributing", "CONTRIBUTING.md">>,
     frontmatter |-> <<<<K_title, StrV(T_Contributor_Guide)>>, <<K_parent, StrV(T_Contributing)>>, <<K_nav_order, IntV(3)>>>>],
    [path |-> <<"contributing", "PLUGIN_STANDARDS.md">>,
     frontmatter |-> <<<<K_title, StrV(T_Plugin_Standards)>>, <<K_parent, StrV(T_Contributing)>>, <<K_nav_order, IntV(4)>>>>] >>
\* ----------------------------------------------------------- file system
\* A world is what the operations read and change: the files, the
\* directories, the printed lines, the trace of write_text calls, and the
\* exception that has ended the run, if any.
NoError == "none"

World(f, d, o, w) == [fs |-> f, dirs |-> d, out |-> o, writes |-> w, raised |-> NoError]

\* Path.exists(): a file or a directory is there.  Below a regular file
\* nothing is, and stat()'s ENOTDIR answers False like ENOENT.
exists(w, filepath) == filepath \in DOMAIN w.fs \/ filepath \in w.dirs

\* filepath.parent
parent(filepath) == SubSeq(filepath, 1, Len(filepath) - 1)

\* A directory and the directories above it, DOCS_ROOT included.
Ancestors(dir) == {SubSeq(dir, 1, k) : k \in 0..Len(dir)}

\* Path.mkdir(parents=True, exist_ok=True): the directory and its missing
\* ancestors are made.  os.mkdir fails with EEXIST when the path is a regular
\* file, which exist_ok forgives for a directory only, and with ENOTDIR when a
\* component above it is a regular file; either exception leaves the tree as
\* it was.
mkdir(w, dir) ==
    IF dir \in DOMAIN w.fs
    THEN [w EXCEPT !.raised = "FileExistsError"]
    ELSE IF Ancestors(dir) \cap DOMAIN w.fs # {}
    THEN [w EXCEPT !.raised = "NotADirectoryError"]
    ELSE [w EXCEPT !.dirs = @ \cup Ancestors(dir)]

\* The files after storing bytes at filepath.
Put(f, filepath, text) ==
    [q \in DOMAIN f \cup {filepath} |-> IF q = filepath THEN text ELSE f[q]]

\* print(f"{message}: {filepath}")
Line(message, filepath) == [msg |-> message, path |-> filepath]

\* ------------------------------------------------------- textwrap.dedent
\* _whitespace_only_re = '^[ \t]+$': a line of spaces and tabs only.
WhitespaceOnly(line) == line # <<>> /\ LeadCount(line, {" ", "\t"}) = Len(line)

\* _leading_whitespace_re = '(^[ \t]*)(?:[^ \t\n])': the indent of a line that
\* has something other than spaces and tabs.
Indent(line) == SubSeq(line, 1, LeadCount(line, {" ", "\t"}))

\* The loop over indents: the margin after each further indent.
RECURSIVE Margin(_, _)
Margin(margin, indents) ==
    IF indents = <<>> THEN margin
    ELSE LET indent == Head(indents)
             m == IF StartsWith(indent, margin) THEN margin
                  ELSE IF StartsWith(margin, indent) THEN indent
                  ELSE CommonPrefix(margin, indent)
         IN  Margin(m, Tail(indents))

\* The lines the leading-whitespace pattern matches: those that are not made
\* of spaces and tabs alone.
HasText(line) == Indent(line) # line

NonBlank(lines) == SelectSeq(lines, HasText)

\* textwrap.dedent(text)
dedent(text) ==
    LET raw == SplitLines(text)
        lines == [i \in 1..Len(raw) |-> IF WhitespaceOnly(raw[i]) THEN <<>> ELSE raw[i]]
        found == NonBlank(lines)
        indents == [i \in 1..Len(found) |-> Indent(found[i])]
        margin == IF indents = <<>> THEN <<>> ELSE Margin(indents[1], Tail(indents))
        cut == [i \in 1..Len(lines) |->
                   IF margin # <<>> /\ StartsWith(lines[i], margin)
                   THEN Drop(lines[i], Len(margin)) ELSE lines[i]]
    IN  Join(cut, <<NL>>)

\* ------------------------------------------------- prepend_frontmatter
\* value_str with the boolean test written as a comparison with True and
\* False, which the integers 1 and 0 pass as well.
value_str_by_equality(value) ==
    IF value.t = "bool" \/ (value.t = "int" /\ value.n \in {0, 1})
    THEN IF value = BoolV(TRUE) \/ value = IntV(1) THEN true_str ELSE false_str
    ELSE PyStr(value)

\* The value_str of lines 25-28.
value_str(value) ==
    IF value.t = "bool"
    THEN IF value.b THEN true_str ELSE false_str
    ELSE PyStr(value)

\* The list `lines` of lines 23-31.
frontmatter_lines(frontmatter) ==
    <<Delim>>
    \o [i \in 1..Len(frontmatter) |->
           frontmatter[i][1] \o <<":", " ">> \o value_str(frontmatter[i][2])]
    \o <<Delim>>
    \o << <<>> >>

\* The test of line 18 without the lstrip().
has_front_matter_unstripped(content) == StartsWith(content, Delim)

\* The test of line 18: content.lstrip().startswith("---")
has_front_matter(content) == StartsWith(LStrip(content), Delim)

\* new_content with the block after the text instead of before it.
new_content_appended(frontmatter, content) ==
    content \o Join(frontmatter_lines(frontmatter), <<NL>>)

\* new_content of line 33
new_content(frontmatter, content) ==
    Join(frontmatter_lines(frontmatter), <<NL>>) \o content

\* prepend_frontmatter taking a missing file for an empty one.
prepend_frontmatter_creating(w, filepath, frontmatter) ==
    IF filepath \in w.dirs
    THEN [w EXCEPT !.raised = "IsADirectoryError"]
    ELSE IF exists(w, filepath) /\ ~Decodable(w.fs[filepath])
    THEN [w EXCEPT !.raised = "UnicodeDecodeError"]
    ELSE
    LET content == IF exists(w, filepath) THEN read_text(w.fs[filepath]) ELSE <<>>
    IN  IF has_front_matter(content)
        THEN [w EXCEPT !.out =
                  Append(@, Line("[SKIP] Front matter already present", filepath))]
        ELSE [w EXCEPT
                  !.fs = Put(@, filepath, write_text(new_content(frontmatter, content))),
                  !.writes = Append(@, filepath),
                  !.out = Append(@, Line("[OK] Added front matter to", filepath))]

\* prepend_frontmatter storing the block first and the whole text after it,
\* in two write_text calls.
prepend_frontmatter_two_writes(w, filepath, frontmatter) ==
    IF ~exists(w, filepath)
    THEN [w EXCEPT !.out = Append(@, Line("[WARN] File does not exist, skipping", filepath))]
    ELSE IF filepath \notin DOMAIN w.fs
    THEN [w EXCEPT !.raised = "IsADirectoryError"]
    ELSE IF ~Decodable(w.fs[filepath])
    THEN [w EXCEPT !.raised = "UnicodeDecodeError"]
    ELSE LET content == read_text(w.fs[filepath])
         IN  IF has_front_matter(content)
             THEN [w EXCEPT !.out =
                       Append(@, Line("[SKIP] Front matter already present", filepath))]
             ELSE [w EXCEPT
                       !.fs = Put(@, filepath, write_text(new_content(frontmatter, content))),
                       !.writes = @ \o <<filepath, filepath>>,
                       !.out = Append(@, Line("[OK] Added front matter to", filepath))]

\* Lines 9-35.  A path that exists without being a file is a directory, and
\* read_text of a directory raises, as it does of bytes that are not UTF-8.
prepend_frontmatter(w, filepath, frontmatter) ==
    IF ~exists(w, filepath)
    THEN [w EXCEPT !.out = Append(@, Line("[WARN] File does not exist, skipping", filepath))]
    ELSE IF filepath \notin DOMAIN w.fs
    THEN [w EXCEPT !.raised = "IsADirectoryError"]
    ELSE IF ~Decodable(w.fs[filepath])
    THEN [w EXCEPT !.raised = "UnicodeDecodeError"]
    ELSE LET content == read_text(w.fs[filepath])
         IN  IF has_front_matter(content)
             THEN [w EXCEPT !.out =
                       Append(@, Line("[SKIP] Front matter already present", filepath))]
             ELSE [w EXCEPT
                       !.fs = Put(@, filepath, write_text(new_content(frontmatter, content))),
                       !.writes = Append(@, filepath),
                       !.out = Append(@, Line("[OK] Added front matter to", filepath))]

\* ---------------------------------------------- create_file_if_missing
\* What line 44 writes for the argument content.
created_text(content) == LStripNewlines(dedent(content))

\* Lines 38-45.  An exception of mkdir ends the call before anything is
\* written or printed.
create_file_if_missing(w, filepath, content) ==
    IF exists(w, filepath)
    THEN [w EXCEPT !.out = Append(@, Line("[SKIP] Parent file already exists", filepath))]
    ELSE LET made == mkdir(w, parent(filepath))
         IN  IF made.raised # NoError
             THEN made
             ELSE [made EXCEPT
                       !.fs = Put(@, filepath, write_text(created_text(content))),
                       !.writes = Append(@, filepath),
                       !.out = Append(@, Line("[OK] Created parent file", filepath))]

\* ------------------------------------------------------------------ main
\* The field of the f-string of line 118:
\* 'true' if v is True else 'false' if v is False else v
parent_value_str(v) ==
    IF v.t = "bool" /\ v.b THEN true_str
    ELSE IF v.t = "bool" /\ ~v.b THEN false_str
    ELSE PyStr(v)

\* The body passed with its leading newlines stripped but not dedented.
parent_body_undedented(body) == LStripNewlines(body)

\* The body as line 121 passes it: textwrap.dedent(body).lstrip("\n")
parent_body(body) == LStripNewlines(dedent(body))

\* The content argument of lines 117-121.
parent_content(fm, body) ==
    Delim \o <<NL>>
    \o Join([i \in 1..Len(fm) |-> fm[i][1] \o <<":", " ">> \o parent_value_str(fm[i][2])],
            <<NL>>)
    \o <<NL>> \o Delim \o <<NL, NL>>
    \o parent_body(body)

\* The content argument of each entry of parents, computed once.
ParentContents == [i \in 1..Len(parents) |->
                      parent_content(parents[i].frontmatter, parents[i].body)]

\* The parent loop annotating a parent page that already exists.
parent_iteration_annotating(w, i) ==
    LET path == parents[i].path
    IN  IF ~exists(w, path)
        THEN create_file_if_missing(w, path, ParentContents[i])
        ELSE prepend_frontmatter(w, path, parents[i].frontmatter)

\* One iteration of the loop of lines 113-123.
parent_iteration(w, i) ==
    LET path == parents[i].path
    IN  IF ~exists(w, path)
        THEN create_file_if_missing(w, path, ParentContents[i])
        ELSE [w EXCEPT !.out =
                  Append(@, Line("[INFO] Parent already exists, not overwriting", path))]

\* One iteration of the loop of lines 220-221.
leaf_iteration(w, j) ==
    prepend_frontmatter(w, files_frontmatter[j].path, files_frontmatter[j].frontmatter)

NParents == Len(parents)
NLeaves == Len(files_frontmatter)
Done == NParents + NLeaves + 1

ParentPaths == {parents[i].path : i \in 1..NParents}
LeafPaths == {files_frontmatter[j].path : j \in 1..NLeaves}
AllPaths == ParentPaths \cup LeafPaths

\* main() from its k-th table entry on, as a function of the world; an
\* exception ends it where it is raised.
RECURSIVE main_from(_, _)
main_from(w, k) ==
    IF k >= Done \/ w.raised # NoError THEN w
    ELSE IF k <= NParents THEN main_from(parent_iteration(w, k), k + 1)
    ELSE main_from(leaf_iteration(w, k - NParents), k + 1)

\* ------------------------------------------------------- initial file trees
\* All texts over an alphabet up to a length.
Texts(alphabet, n) == UNION {[1..k -> alphabet] : k \in 0..n}

LeadChars == {" ", NL, VT}
Heads == {<<>>, Delim, <<"-", "-">>}
Tails == {<<>>, <<"a">>, <<CR>>, <<"a", CR, NL, "b", NL>>}

\* The texts the singled-out file may hold: leading whitespace, then nothing, a
\* delimiter or a near-delimiter, then a tail that may hold carriage returns.
Contents ==
    {lead \o head \o tail :
        lead \in Texts(LeadChars, MaxLead), head \in Heads, tail \in Tails}

\* What the other files hold: nothing exists, every page is a plain page, or
\* every page already carries front matter.
PlainText == <<"#", " ", "b", NL>>
MarkedText == Delim \o <<NL, "k", ":", " ", "v", NL>> \o Delim \o <<NL>> \o PlainText
Backgrounds == {"absent", "plain", "marked"}

BackgroundFiles(bg) ==
    [p \in (IF bg = "absent" THEN {} ELSE AllPaths) |->
        IF bg = "plain" THEN PlainText ELSE MarkedText]

\* The background with one path replaced: absent (opt = <<>>) or holding the
\* text opt[1].
Tree(bg, focus, opt) ==
    LET base == BackgroundFiles(bg)
    IN  [p \in (IF opt = <<>> THEN DOMAIN base \ {focus} ELSE DOMAIN base \cup {focus}) |->
            IF p = focus THEN opt[1] ELSE base[p]]

Trees ==
    {Tree(bg, focus, opt) :
        bg \in Backgrounds, focus \in AllPaths, opt \in {<<>>} \cup {<<c>> : c \in Contents}}

\* DOCS_ROOT and the directories the files of a tree lie in.
DirsOf(f) == UNION {Ancestors(parent(p)) : p \in DOMAIN f} \cup {<<>>}

EmptyTree == [p \in {} |-> <<>>]

\* Trees in which a configured name is taken by the other kind of thing: a
\* regular file where the directory of a parent page belongs, DOCS_ROOT itself
\* a regular file, or a directory where a page belongs.
Obstructed ==
    {[fs |-> [p \in {parent(q)} |-> PlainText], dirs |-> {<<>>}] : q \in ParentPaths}
    \cup {[fs |-> [p \in {<<>>} |-> PlainText], dirs |-> {}]}
    \cup {[fs |-> EmptyTree, dirs |-> Ancestors(q)] : q \in AllPaths}

\* Bytes beyond ASCII: a delimiter after U+00A0 and after U+2003, a text
\* that starts with U+00E9, a stray continuation byte, and a character cut
\* short.
EncodedContents ==
    {<<"xC2", "xA0">> \o Delim \o <<NL>>,
     <<"xE2", "x80", "x83">> \o Delim,
     <<"xC3", "xA9", "b", NL>>,
     <<"xA0">>,
     <<"a", "xC3">>}

\* One leaf page holding such bytes, nothing else existing.
EncodedTrees ==
    {Tree("absent", focus, <<c>>) : focus \in LeafPaths, c \in EncodedContents}

\* The files and directories a run may start on.
StartTrees ==
    {[fs |-> f, dirs |-> DirsOf(f)] : f \in Trees \cup EncodedTrees} \cup Obstructed

\* ---------------------------------------------------------- sequential runs
Idle == [r \in {1, 2} |-> [k |-> Done, at |-> "check", buf |-> <<>>, bufsize |-> 0, content |-> <<>>]]

Init ==
    /\ start \in StartTrees
    /\ fs = start.fs
    /\ dirs = start.dirs
    /\ out = <<>>
    /\ writes = <<>>
    /\ raised = NoError
    /\ pc = 1
    /\ run = "first"
    /\ proc = Idle
    /\ interrupted = FALSE

Now == [fs |-> fs, dirs |-> dirs, out |-> out, writes |-> writes, raised |-> raised]

\* The world after a table entry; main() moves on to the next entry unless
\* the entry raised.
Become(w) ==
    /\ fs' = w.fs
    /\ dirs' = w.dirs
    /\ out' = w.out
    /\ writes' = w.writes
    /\ raised' = w.raised
    /\ pc' = IF w.raised = NoError THEN pc + 1 ELSE pc

\* Lines 113-123: the next parent-page entry.
ParentStep ==
    /\ raised = NoError
    /\ pc <= NParents
    /\ Become(parent_iteration(Now, pc))
    /\ UNCHANGED <<run, start, proc, interrupted>>

\* Lines 220-221: the next leaf-page entry.
LeafStep ==
    /\ raised = NoError
    /\ pc > NParents
    /\ pc < Done
    /\ Become(leaf_iteration(Now, pc - NParents))
    /\ UNCHANGED <<run, start, proc, interrupted>>

\* Line 225: main() is invoked again once the first run has returned or has
\* ended with an exception.
Rerun ==
    /\ pc = Done \/ raised # NoError
    /\ run = "first"
    /\ run' = "second"
    /\ start' = [fs |-> fs, dirs |-> dirs]
    /\ out' = <<>>
    /\ writes' = <<>>
    /\ raised' = NoError
    /\ pc' = 1
    /\ UNCHANGED <<fs, dirs, proc, interrupted>>

Next == ParentStep \/ LeafStep \/ Rerun

Spec == Init /\ [][Next]_vars

\* --------------------------------------------------------- overlapping runs
\* Two runs of main() on one tree, each a process of its own, interleaved at
\* every system call that touches the tree: each existence check, each mkdir,
\* the open, the fstat and every read() of each read_text, and the two halves
\* of each write_text, which opens the file (creating or truncating it) and
\* writes the bytes when it closes it.  proc[r].k is the table entry run r is at,
\* proc[r].at the step within it, proc[r].buf the bytes it has read so far
\* into a buffer of proc[r].bufsize bytes, proc[r].content the text it read;
\* out, writes and raised are kept per run.
Procs == {1, 2}

\* Texts without front matter, and one with it after leading whitespace.
RaceTexts == {<<>>, PlainText, <<"a", CR, NL, "b">>}
SettledText == <<" ", NL>> \o MarkedText

\* The trees the runs overlap on: one parent page is missing and no leaf page
\* exists, or the parent pages exist and so does one leaf page, with or
\* without front matter.
ConcTrees ==
    {[p \in ParentPaths \ {missing} |-> PlainText] : missing \in ParentPaths}
    \cup {[p \in ParentPaths \cup {leaf} |-> IF p \in ParentPaths THEN PlainText ELSE c] :
             leaf \in LeafPaths, c \in RaceTexts \cup {SettledText}}

\* A run at the start of table entry k.
Entering(k) == [k |-> k, at |-> "check", buf |-> <<>>, bufsize |-> 0, content |-> <<>>]

InitConc ==
    /\ start \in {[fs |-> f, dirs |-> DirsOf(f)] : f \in ConcTrees}
    /\ fs = start.fs
    /\ dirs = start.dirs
    /\ out = [r \in Procs |-> <<>>]
    /\ writes = [r \in Procs |-> <<>>]
    /\ raised = [r \in Procs |-> NoError]
    /\ pc = Done
    /\ run = "first"
    /\ proc = [r \in Procs |-> Entering(1)]
    /\ interrupted = FALSE

Advance(r) == proc' = [proc EXCEPT ![r] = Entering(@.k + 1)]
Goto(r, label) == proc' = [proc EXCEPT ![r].at = label]

AtParent(r, label) == proc[r].k <= NParents /\ proc[r].at = label
AtLeaf(r, label) == proc[r].k > NParents /\ proc[r].k < Done /\ proc[r].at = label

ParentPathAt(r) == parents[proc[r].k].path
LeafAt(r) == files_frontmatter[proc[r].k - NParents]

\* The world as run r has it: the shared tree and its own output.
NowOf(r) ==
    [fs |-> fs, dirs |-> dirs, out |-> out[r], writes |-> writes[r], raised |-> raised[r]]

\* print(f"{message}: {filepath}") by run r
Prints(r, message, filepath) == out' = [out EXCEPT ![r] = Append(@, Line(message, filepath))]

\* Run r ends with an exception.
Raises(r, exception) ==
    /\ raised' = [raised EXCEPT ![r] = exception]
    /\ Goto(r, "raised")

\* Run r is taking a step while another run is inside a call of read_text,
\* after its open and before its last read(), or of write_text, after its
\* open and before its write.
Interrupts(r) ==
    \E s \in Procs \ {r} :
        /\ proc[s].k < Done
        /\ proc[s].at \in {"fstat", "read", "write"}

\* The step of run r is recorded as interrupting if it does.
Steps(r) == interrupted' = (interrupted \/ Interrupts(r))

\* FileIO.readall: the buffer is one byte larger than the file was at the
\* fstat, or SMALLCHUNK when the file was empty, and grows by new_buffersize
\* when it is full.
SMALLCHUNK == 8192

new_buffersize(currentsize) ==
    LET grow == IF currentsize > 65536 THEN currentsize \div 8 ELSE 256 + currentsize
    IN  currentsize + (IF grow < SMALLCHUNK THEN SMALLCHUNK ELSE grow)

\* What a file holds after the bytes data are written at its start:
\* open(mode="w") leaves the position at 0 and the file is not in append mode,
\* so bytes that another run stored beyond the end of data since the open
\* stay.
Overlay(stored, data) == data \o Drop(stored, Len(data))

Frame == UNCHANGED <<pc, run, start>>

\* Lines 116 and 122-123: if not path.exists() ... else print
MainExists(r) ==
    /\ AtParent(r, "check")
    /\ IF exists(NowOf(r), ParentPathAt(r))
       THEN /\ Prints(r, "[INFO] Parent already exists, not overwriting", ParentPathAt(r))
            /\ Advance(r)
       ELSE /\ Goto(r, "create")
            /\ UNCHANGED out
    /\ UNCHANGED <<fs, dirs, writes, raised>>
    /\ Steps(r)
    /\ Frame

\* Lines 40-42: if filepath.exists(): print, return
CreateExists(r) ==
    /\ AtParent(r, "create")
    /\ IF exists(NowOf(r), ParentPathAt(r))
       THEN /\ Prints(r, "[SKIP] Parent file already exists", ParentPathAt(r))
            /\ Advance(r)
       ELSE /\ Goto(r, "mkdir")
            /\ UNCHANGED out
    /\ UNCHANGED <<fs, dirs, writes, raised>>
    /\ Steps(r)
    /\ Frame

\* Line 43: filepath.parent.mkdir(parents=True, exist_ok=True)
CreateMkdir(r) ==
    /\ AtParent(r, "mkdir")
    /\ LET made == mkdir(NowOf(r), parent(ParentPathAt(r)))
       IN  /\ dirs' = made.dirs
           /\ IF made.raised # NoError
              THEN Raises(r, made.raised)
              ELSE Goto(r, "open") /\ UNCHANGED raised
    /\ UNCHANGED <<fs, out, writes>>
    /\ Steps(r)
    /\ Frame

\* Line 44, first half: write_text opens the file, which creates it empty or
\* truncates it.
CreateOpen(r) ==
    /\ AtParent(r, "open")
    /\ fs' = Put(fs, ParentPathAt(r), <<>>)
    /\ writes' = [writes EXCEPT ![r] = Append(@, ParentPathAt(r))]
    /\ Goto(r, "write")
    /\ UNCHANGED <<dirs, out, raised>>
    /\ Steps(r)
    /\ Frame

\* Lines 44-45: write_text writes the text and closes the file; print
CreateWrite(r) ==
    /\ AtParent(r, "write")
    /\ fs' = Put(fs, ParentPathAt(r),
                 Overlay(fs[ParentPathAt(r)],
                         write_text(created_text(ParentContents[proc[r].k]))))
    /\ Prints(r, "[OK] Created parent file", ParentPathAt(r))
    /\ Advance(r)
    /\ UNCHANGED <<dirs, writes, raised>>
    /\ Steps(r)
    /\ Frame

\* Lines 11-13: if not filepath.exists(): print, return
PrependExists(r) ==
    /\ AtLeaf(r, "check")
    /\ IF exists(NowOf(r), LeafAt(r).path)
       THEN /\ Goto(r, "rdopen")
            /\ UNCHANGED out
       ELSE /\ Prints(r, "[WARN] File does not exist, skipping", LeafAt(r).path)
            /\ Advance(r)
    /\ UNCHANGED <<fs, dirs, writes, raised>>
    /\ Steps(r)
    /\ Frame

\* Line 15, read_text: the file is opened for reading, which a directory
\* refuses.
PrependReadOpen(r) ==
    /\ AtLeaf(r, "rdopen")
    /\ IF LeafAt(r).path \notin DOMAIN fs
       THEN Raises(r, "IsADirectoryError")
       ELSE Goto(r, "fstat") /\ UNCHANGED raised
    /\ UNCHANGED <<fs, dirs, out, writes>>
    /\ Steps(r)
    /\ Frame

\* Line 15, read_text: readall sizes its buffer by the fstat of the open file.
PrependReadStat(r) ==
    /\ AtLeaf(r, "fstat")
    /\ proc' = [proc EXCEPT
                   ![r].at = "read",
                   ![r].bufsize = IF Len(fs[LeafAt(r).path]) > 0
                                  THEN Len(fs[LeafAt(r).path]) + 1
                                  ELSE SMALLCHUNK]
    /\ UNCHANGED <<fs, dirs, out, writes, raised>>
    /\ Steps(r)
    /\ Frame

\* The bytes one read() of run r returns: those the file holds from the
\* position of run r on, as far as the buffer has room.
ChunkSize(r) ==
    LET pos == Len(proc[r].buf) IN
    IF pos >= proc[r].bufsize THEN new_buffersize(pos) ELSE proc[r].bufsize

Chunk(r) ==
    LET stored == fs[LeafAt(r).path]
        pos == Len(proc[r].buf)
        room == ChunkSize(r) - pos
        last == IF Len(stored) < pos + room THEN Len(stored) ELSE pos + room
    IN  SubSeq(stored, pos + 1, last)

\* PrependReadChunk without the test of line 18: every text read is written
\* back under a block.
PrependReadChunk_untested(r) ==
    /\ AtLeaf(r, "read")
    /\ IF Chunk(r) # <<>>
       THEN /\ proc' = [proc EXCEPT ![r].buf = @ \o Chunk(r), ![r].bufsize = ChunkSize(r)]
            /\ UNCHANGED <<out, raised>>
       ELSE IF ~Decodable(proc[r].buf)
       THEN /\ Raises(r, "UnicodeDecodeError")
            /\ UNCHANGED out
       ELSE /\ proc' = [proc EXCEPT ![r].at = "open", ![r].content = read_text(proc[r].buf)]
            /\ UNCHANGED <<out, raised>>
    /\ UNCHANGED <<fs, dirs, writes>>
    /\ Steps(r)
    /\ Frame

\* Lines 15-20: one read() of read_text.  Bytes go to the buffer; when none
\* are left the bytes read are decoded, the text is tested, and a text with
\* front matter is reported and left.
PrependReadChunk(r) ==
    /\ AtLeaf(r, "read")
    /\ IF Chunk(r) # <<>>
       THEN /\ proc' = [proc EXCEPT ![r].buf = @ \o Chunk(r), ![r].bufsize = ChunkSize(r)]
            /\ UNCHANGED <<out, raised>>
       ELSE IF ~Decodable(proc[r].buf)
       THEN /\ Raises(r, "UnicodeDecodeError")
            /\ UNCHANGED out
       ELSE LET content == read_text(proc[r].buf)
            IN  /\ IF has_front_matter(content)
                   THEN /\ Prints(r, "[SKIP] Front matter already present", LeafAt(r).path)
                        /\ Advance(r)
                   ELSE /\ proc' = [proc EXCEPT ![r].at = "open", ![r].content = content]
                        /\ UNCHANGED out
                /\ UNCHANGED raised
    /\ UNCHANGED <<fs, dirs, writes>>
    /\ Steps(r)
    /\ Frame

\* Line 34, first half: write_text opens the file, which truncates it.
PrependOpen(r) ==
    /\ AtLeaf(r, "open")
    /\ fs' = Put(fs, LeafAt(r).path, <<>>)
    /\ writes' = [writes EXCEPT ![r] = Append(@, LeafAt(r).path)]
    /\ Goto(r, "write")
    /\ Steps(r)
    /\ UNCHANGED <<dirs, out, raised>>
    /\ Frame

\* Lines 33-35: write_text writes the bytes of the block and the text read
\* earlier and closes the file; print
PrependWrite(r) ==
    /\ AtLeaf(r, "write")
    /\ fs' = Put(fs, LeafAt(r).path,
                 Overlay(fs[LeafAt(r).path],
                         write_text(new_content(LeafAt(r).frontmatter, proc[r].content))))
    /\ Prints(r, "[OK] Added front matter to", LeafAt(r).path)
    /\ Advance(r)
    /\ UNCHANGED <<dirs, writes, raised>>
    /\ Steps(r)
    /\ Frame

NextConc ==
    \E r \in Procs :
        \/ MainExists(r)
        \/ CreateExists(r)
        \/ CreateMkdir(r)
        \/ CreateOpen(r)
        \/ CreateWrite(r)
        \/ PrependExists(r)
        \/ PrependReadOpen(r)
        \/ PrependReadStat(r)
        \/ PrependReadChunk(r)
        \/ PrependOpen(r)
        \/ PrependWrite(r)

SpecConc == InitConc /\ [][NextConc]_vars
\* ================================================================= claims
\* The table entry at position k of a run, parents first.
EntryPath(k) ==
    IF k <= NParents THEN parents[k].path ELSE files_frontmatter[k - NParents].path

EntryFrontmatter(k) ==
    IF k <= NParents THEN parents[k].frontmatter
    ELSE files_frontmatter[k - NParents].frontmatter

\* The position of each configured path, computed once.
IndexTable == [p \in AllPaths |-> CHOOSE k \in 1..(Done - 1) : EntryPath(k) = p]

IndexOf(p) == IndexTable[p]

\* The sequential run has finished the entry of path p.
Visited(p) == IndexOf(p) < pc

Logged(p, message) == \E i \in 1..Len(out) : out[i] = Line(message, p)

LinesFor(p) == {i \in 1..Len(out) : out[i].path = p}

Written(p) == \E i \in 1..Len(writes) : writes[i] = p

\* Path p was a file or a directory when the run started.
ExistedAtStart(p) == p \in DOMAIN start.fs \/ p \in start.dirs

\* An empty DOCS_ROOT.
NothingThere == [fs |-> EmptyTree, dirs |-> {<<>>}]

\* Stored bytes are a text that starts with the delimiter once leading
\* whitespace is stripped.
StartsWithDelimiter(stored) ==
    Decodable(stored) /\ StartsWith(LStrip(utf8_decode(stored)), Delim)

\* The token the specification gives a metadata value.
SpecValue(v) ==
    IF v.t = "bool" THEN (IF v.b THEN true_str ELSE false_str) ELSE PyStr(v)

\* "key: value\n" for every key from the i-th on, in insertion order.
RECURSIVE SpecKeyLines(_, _)
SpecKeyLines(fm, i) ==
    IF i > Len(fm) THEN <<>>
    ELSE fm[i][1] \o <<":", " ">> \o SpecValue(fm[i][2]) \o <<NL>> \o SpecKeyLines(fm, i + 1)

\* Opening delimiter line, key lines, closing delimiter line.
SpecBlock(fm) == Delim \o <<NL>> \o SpecKeyLines(fm, 1) \o Delim \o <<NL>>

\* The block followed by a blank line.
SpecBlockBlank(fm) == SpecBlock(fm) \o <<NL>>

\* The block of each table entry, computed once.
BlockTable == [k \in 1..(Done - 1) |-> SpecBlock(EntryFrontmatter(k))]

BlockOf(p) == BlockTable[IndexTable[p]]

\* C1: a second run of main() changes nothing: throughout the second run every
\* file holds what it held when the first run ended, and no leaf page ever
\* starts with its front-matter block twice.
C1_Idempotent ==
    /\ run = "second" => (fs = start.fs /\ dirs = start.dirs)
    /\ \A p \in LeafPaths \cap DOMAIN fs :
           LET b == BlockOf(p)
           IN  ~StartsWith(fs[p], b \o b)

\* The second run is over, after a first run that annotated a leaf page and
\* created a parent page.
C1_Witness ==
    /\ run = "second"
    /\ pc = Done
    /\ \E p \in LeafPaths \cap DOMAIN fs :
           StartsWith(fs[p], BlockOf(p))
    /\ \E p \in ParentPaths \cap DOMAIN fs : StartsWith(fs[p], BlockOf(p))

\* C2: a leaf page without a leading delimiter holds, after
\* prepend_frontmatter, the rendered block followed by exactly the text it
\* held before.
C2_OriginalIsSuffix ==
    \A p \in LeafPaths \cap DOMAIN start.fs :
        (run = "first" /\ Visited(p) /\ ~StartsWithDelimiter(start.fs[p]))
            => fs[p] = BlockOf(p) \o start.fs[p]

\* C3: every file the run wrote starts with the block and then a blank line.
C3_BlankLineAfterBlock ==
    \A p \in AllPaths :
        Written(p) => StartsWith(fs[p], BlockOf(p) \o <<NL>>)

\* C4: a leaf page that starts with the delimiter after leading whitespace is
\* not written: it keeps its text, leading whitespace included, and
\* "Front matter already present" is reported for it.
C4_SkipKeepsContent ==
    \A p \in LeafPaths \cap DOMAIN start.fs :
        (Visited(p) /\ StartsWithDelimiter(start.fs[p]))
            => /\ fs[p] = start.fs[p]
               /\ ~Written(p)
               /\ Logged(p, "[SKIP] Front matter already present")

\* A visited leaf page whose delimiter comes after a line tabulation, a
\* whitespace character that is neither blank nor line break.
C4_Witness ==
    \E p \in LeafPaths \cap DOMAIN start.fs :
        /\ Visited(p)
        /\ StartsWith(start.fs[p], <<VT>> \o Delim)
        /\ fs[p] = start.fs[p]

\* C5 as claimed: a created parent page is its block, a blank line, and the
\* body with only its leading blank lines removed.
C5_OnlyBlankLinesRemoved ==
    \A i \in 1..NParents :
        (Visited(parents[i].path) /\ ~ExistedAtStart(parents[i].path))
            => fs[parents[i].path] =
                   SpecBlockBlank(parents[i].frontmatter) \o LStripNewlines(parents[i].body)

\* C5 amended: a parent page absent when visited exists afterwards, with its
\* directories, and holds its block (title, nav_order, has_children in that
\* order), a blank line, and the body dedented and then stripped of its
\* leading newlines.
C5_CreatedParent ==
    \A i \in 1..NParents :
        LET p == parents[i].path
            fm == parents[i].frontmatter
        IN  (Visited(p) /\ ~ExistedAtStart(p))
                => /\ p \in DOMAIN fs
                   /\ Ancestors(parent(p)) \subseteq dirs
                   /\ [k \in 1..Len(fm) |-> fm[k][1]] = <<K_title, K_nav_order, K_has_children>>
                   /\ fs[p] = SpecBlockBlank(fm) \o LStripNewlines(dedent(parents[i].body))
                   /\ Logged(p, "[OK] Created parent file")

\* A parent page was created in a directory that did not exist.
C5_Witness ==
    \E p \in ParentPaths :
        /\ Visited(p)
        /\ ~ExistedAtStart(p)
        /\ parent(p) \notin start.dirs
        /\ p \in DOMAIN fs

\* C6: a parent page that exists when a run starts keeps its text to the end
\* of the run, and no parent path is a leaf path.
C6_ExistingParentUntouched ==
    /\ ParentPaths \cap LeafPaths = {}
    /\ \A p \in ParentPaths \cap DOMAIN start.fs :
           /\ p \in DOMAIN fs
           /\ fs[p] = start.fs[p]
           /\ ~Written(p)

\* The run is over and an existing parent page holds text without front matter.
C6_Witness ==
    /\ pc = Done
    /\ \E p \in ParentPaths \cap DOMAIN start.fs : ~StartsWithDelimiter(start.fs[p])

\* C7: a missing leaf page is reported and not created, a file changes only
\* when its own entry reports [OK], every entry before pc has reported its
\* line whatever was missing before it, and from an empty tree the finished
\* run has created exactly the five parent pages and reported every leaf page
\* missing.
C7_MissingLeafNonFatal ==
    /\ \A p \in LeafPaths \ DOMAIN start.fs :
           Visited(p) => /\ p \notin DOMAIN fs
                         /\ ~Written(p)
                         /\ Logged(p, "[WARN] File does not exist, skipping")
    /\ \A q \in AllPaths :
           (q \in DOMAIN fs /\ (q \notin DOMAIN start.fs \/ fs[q] # start.fs[q]))
               => \/ Logged(q, "[OK] Added front matter to")
                  \/ Logged(q, "[OK] Created parent file")
    /\ DOMAIN start.fs \subseteq DOMAIN fs
    /\ \A k \in 1..(pc - 1) : out[k].path = EntryPath(k)
    /\ Len(out) = pc - 1
    /\ (pc = Done /\ start = NothingThere)
           => /\ DOMAIN fs = ParentPaths
              /\ \A p \in ParentPaths : Logged(p, "[OK] Created parent file")
              /\ \A p \in LeafPaths : Logged(p, "[WARN] File does not exist, skipping")

\* A run over an empty tree has ended.
C7_Witness ==
    /\ pc = Done
    /\ run = "first"
    /\ start = NothingThere
    /\ Cardinality(DOMAIN fs) = NParents

\* The values the renderers are tried on beside those of the tables.
SampleValues == {BoolV(TRUE), BoolV(FALSE), IntV(0), IntV(1), IntV(10)}

\* Both renderers on the sample values.
SamplesRendered ==
    \A v \in SampleValues :
        /\ value_str(v) = parent_value_str(v)
        /\ (v.t = "bool") = (value_str(v) \in {true_str, false_str})
        /\ v.t = "bool" => (value_str(v) = true_str) = v.b
        /\ v.t = "int" /\ v.n < 10 => value_str(v) = <<Digit(v.n)>>

\* C8: in every block written, by either path, a boolean is the token true or
\* false and anything else is its str() form, never true or false.
C8_BooleanTokens ==
    /\ \A p \in AllPaths :
           Written(p) =>
               LET fm == EntryFrontmatter(IndexOf(p))
               IN  /\ StartsWith(fs[p], BlockOf(p))
                   /\ \A k \in 1..Len(fm) :
                          IF fm[k][2].t = "bool"
                          THEN SpecValue(fm[k][2]) \in {true_str, false_str}
                          ELSE /\ SpecValue(fm[k][2]) = PyStr(fm[k][2])
                               /\ SpecValue(fm[k][2]) \notin {true_str, false_str}
    /\ SamplesRendered

\* A run has created a parent page (has_children: true) and annotated a leaf
\* page whose nav_order is 1.
C8_Witness ==
    /\ \E p \in ParentPaths : Written(p)
    /\ \E p \in LeafPaths :
           /\ Written(p)
           /\ \E k \in 1..Len(EntryFrontmatter(IndexOf(p))) :
                  EntryFrontmatter(IndexOf(p))[k][2] = IntV(1)

\* C9: the two tables share no path and list none twice; at any point of a run
\* exactly the entries before pc have been visited, once each and parents
\* first; no path is written twice, and a file differs from its text at the
\* start of the run only if it was written.
C9_VisitedOnceWrittenOnce ==
    /\ ParentPaths \cap LeafPaths = {}
    /\ Cardinality(AllPaths) = NParents + NLeaves
    /\ Len(out) = pc - 1
    /\ \A i \in 1..Len(out) : out[i].path = EntryPath(i)
    /\ \A p \in AllPaths : Cardinality(LinesFor(p)) = (IF Visited(p) THEN 1 ELSE 0)
    /\ \A i \in 1..Len(out) : \A j \in 1..Len(out) :
           (i < j /\ out[i].path \in LeafPaths) => out[j].path \in LeafPaths
    /\ \A i \in 1..Len(writes) : \A j \in 1..Len(writes) :
           writes[i] = writes[j] => i = j
    /\ \A q \in AllPaths :
           (q \in DOMAIN fs /\ (q \notin DOMAIN start.fs \/ fs[q] # start.fs[q])) => Written(q)

\* A finished run that wrote a parent page and a leaf page.
C9_Witness ==
    /\ pc = Done
    /\ \E p \in ParentPaths : Written(p)
    /\ \E p \in LeafPaths : Written(p)

\* Both overlapping runs have returned.
AllDone == \A r \in Procs : proc[r].k = Done

\* Both overlapping runs are past the entry of path p.
Passed(p) == \A r \in Procs : proc[r].k > IndexOf(p)

\* What one sequential run of main() leaves of each tree, computed once.
SequentialTable ==
    [t \in ConcTrees |-> main_from(World(t, DirsOf(t), <<>>, <<>>), 1)]

\* What one sequential run of main() leaves of the tree the runs started on.
Sequential == SequentialTable[start.fs]

\* The file at p is what one sequential run leaves at p.
AsSequential(p) ==
    /\ (p \in DOMAIN fs) = (p \in DOMAIN Sequential.fs)
    /\ p \in DOMAIN fs => fs[p] = Sequential.fs[p]

\* C10: two overlapping runs interleaved at the granularity of existence
\* checks, file reads and whole-file writes, that is with no step of one run
\* inside a read_text or a write_text call of the other: no file goes away,
\* no leaf page ever starts with its block twice, every file both runs are
\* past is what one sequential run leaves, and when both have finished the
\* files and directories are those of one sequential run and every page that
\* existed reads as a text ending with the text it read as at the start.
C10_OverlapEqualsSequential ==
    ~interrupted =>
        /\ DOMAIN start.fs \subseteq DOMAIN fs
        /\ \A p \in LeafPaths \cap DOMAIN fs :
               LET b == BlockOf(p)
               IN  ~StartsWith(fs[p], b \o b)
        /\ \A p \in AllPaths : Passed(p) => AsSequential(p)
        /\ \A p \in DOMAIN start.fs :
               Passed(p) => EndsWith(read_text(fs[p]), read_text(start.fs[p]))
        /\ AllDone => (fs = Sequential.fs /\ dirs = Sequential.dirs)

\* Both runs have finished with every read_text and write_text call left
\* whole, and both wrote the same leaf page.
C10_Witness ==
    /\ AllDone
    /\ ~interrupted
    /\ \E p \in LeafPaths :
           /\ \A r \in Procs : \E i \in 1..Len(writes[r]) : writes[r][i] = p
           /\ fs[p] # start.fs[p]
====
